---- MODULE Spec2Model ----
(***************************************************************************)
(* Model of src/src/components/GravityRunner.tsx: the React component      *)
(* GravityRunner, its simulation tick (updateGame), the animation-frame    *)
(* loop (gameLoop and the effect that starts and cancels it), the round    *)
(* state (gameStarted, gameOver) and the persisted high score.             *)
(*                                                                         *)
(* Units.  Lengths and speeds are JavaScript numbers with fractions        *)
(* (0.8, 3.1, 9.44, ...).  They are kept here as integers counting         *)
(* thousandths of a pixel, so 0.8 is 800 and canvasSize.width * 0.005 is   *)
(* (width * 5) \div 1000.  particle.life is kept in thousandths too.       *)
(* Times are integer milliseconds, as Date.now() gives them.  Scores are   *)
(* plain integers.                                                         *)
(*                                                                         *)
(* React.  The names gameStarted, gameOver, score, canvasSize, highScore   *)
(* are the values of the last committed render: these are what every       *)
(* closure of that render (handlers, updateGame, gameLoop) reads.          *)
(* `pending` holds the state values after the setState calls made so far;  *)
(* Commit re-renders with them and runs the effects.  A setState made in   *)
(* an animation-frame callback or a resize handler is committed later, in  *)
(* a task of its own; one made in a keydown or click handler is committed  *)
(* before the next event.                                                  *)
(***************************************************************************)
EXTENDS Integers, Sequences, FiniteSets, TLC

VARIABLES
    gameStarted,    \* useState(false), line 27: value of the committed render
    gameOver,       \* useState(false), line 28
    score,          \* useState(0), line 29: the score shown
    canvasSize,     \* useState({width, height}), line 30
    highScore,      \* useState(parseInt(...)), lines 31-33
    pending,        \* the five state values after the queued setState calls
    renderQueued,   \* a re-render is scheduled
    canvasFresh,    \* a setCanvasSize call is queued (always a new object)
    gameState,      \* gameState.current, lines 36-56
    animationRef,   \* animationRef.current, line 26 (0 is undefined)
    frames,         \* requested animation frames not yet run or cancelled
    nextFrameId,    \* the id the next requestAnimationFrame returns
    timers,         \* due times of the pending setTimeout callbacks
    localStorage,   \* the item 'gravityRunnerHighScore'
    window,         \* <<innerWidth, innerHeight>>
    now,            \* Date.now()
    held,           \* the space key is physically down (keyup not yet sent)
    rounds,         \* history: number of startGame calls
    ticks,          \* history: number of updateGame calls
    lastTick,       \* history: what the last updateGame or startGame call did
    removalLog,     \* history: every obstacle the sweep removed, and why
    sinceTap,       \* history: flips since the last tap, and whether the key
                    \*   was down at that tap or pressed since
    used            \* history: environment events used up (see the bounds)

vars == <<gameStarted, gameOver, score, canvasSize, highScore, pending,
          renderQueued, canvasFresh, gameState, animationRef, frames,
          nextFrameId, timers, localStorage, window, now, held, rounds,
          ticks, lastTick, removalLog, sinceTap, used>>

----------------------------------------------------------------------------
(* Bounds of the model *)

StartTime == 100000     \* Date.now() when the page is loaded
FrameMs == 16           \* time between two animation frames
LongMs == 2000          \* a late frame (the tab was hidden, the thread busy)
MaxLongFrames == 1      \* late frames in a run
MaxDeepTicks == 215     \* ticks in a run of SpecDeep
MaxPlayTicks == 4      \* ticks in a run of Spec
MaxInputs == 3          \* keydown, tap and resize events in a run
MaxUncommitted == 1     \* frames run while a re-render is scheduled
SlowMs == 33            \* time between two frames at 30 frames a second
MaxFlipTicks == 14      \* ticks in a run of SpecFlip
MaxFlipInputs == 2      \* keydown and tap events in a run of SpecFlip
TimerSlackMs == 33      \* how late a frame lets a due timer callback be

(* innerWidth, innerHeight of the windows tried *)
WideWindow == <<1920, 867>>
NarrowWindow == <<352, 400>>
Windows == {WideWindow, NarrowWindow}

(* Values of the stored item tried: absent, not a number, a number *)
Absent == [present |-> FALSE, text |-> <<>>]
Item(t) == [present |-> TRUE, text |-> t]
StoredItems == {Absent, Item(<<"a", "b", "c">>), Item(<<"2", "0">>)}

----------------------------------------------------------------------------
(* Numbers and strings *)

Min(a, b) == IF a < b THEN a ELSE b
Max(a, b) == IF a > b THEN a ELSE b

(* A JavaScript number that is an integer or NaN *)
NaN == [nan |-> TRUE, val |-> 0]
Num(n) == [nan |-> FALSE, val |-> n]

(* a > b on numbers: false when either is NaN *)
Gt(a, b) == ~a.nan /\ ~b.nan /\ a.val > b.val

Digits == <<"0", "1", "2", "3", "4", "5", "6", "7", "8", "9">>
IsDigit(c) == \E i \in 1..10 : Digits[i] = c
DigitVal(c) == (CHOOSE i \in 1..10 : Digits[i] = c) - 1
IsSpace(c) == c = " "

RECURSIVE SkipSpace(_)
SkipSpace(t) == IF t # <<>> /\ IsSpace(Head(t)) THEN SkipSpace(Tail(t)) ELSE t

RECURSIVE ReadDigits(_, _)
ReadDigits(t, acc) ==
    IF t # <<>> /\ IsDigit(Head(t))
    THEN ReadDigits(Tail(t), acc * 10 + DigitVal(Head(t)))
    ELSE acc

(* parseInt(text): leading blanks, an optional sign, the longest prefix of
   decimal digits; NaN when there is no digit *)
parseInt(text) ==
    LET t == SkipSpace(text)
        neg == t # <<>> /\ Head(t) = "-"
        u == IF t # <<>> /\ Head(t) \in {"-", "+"} THEN Tail(t) ELSE t
    IN  IF u = <<>> \/ ~IsDigit(Head(u)) THEN NaN
        ELSE Num((IF neg THEN -1 ELSE 1) * ReadDigits(u, 0))

RECURSIVE NatToString(_)
NatToString(n) ==
    IF n < 10 THEN <<Digits[n + 1]>>
    ELSE NatToString(n \div 10) \o <<Digits[(n % 10) + 1]>>

(* (n).toString() for an integer n *)
toString(n) == IF n < 0 THEN <<"-">> \o NatToString(-n) ELSE NatToString(n)

(* localStorage.getItem(...) || '0': null and '' are falsy *)
getItemOrZero(item) ==
    IF item.present /\ item.text # <<>> THEN item.text ELSE <<"0">>

(* the initial value of highScore *)
InitialHighScore(item) == parseInt(getItemOrZero(item))

----------------------------------------------------------------------------
(* Geometry *)

GRAVITY == 800
JUMP_FORCE == -15000
getGroundY(size) == size.height - 50000
getCeilingY == 50000
getPlayerSize(size) == Max(20000, Min(40000, (size.width * 4) \div 100))

(* updateCanvasSize: the size set for a window <<innerWidth, innerHeight>> *)
updateCanvasSize(win) ==
    LET maxWidth == (win[1] - 32) * 1000
        maxHeight == (win[2] - 200) * 1000
        width0 == Min(maxWidth, Max(320000, maxWidth))
        height0 == Min(maxHeight, Max(200000, (maxHeight * 6) \div 10))
    IN  [width |-> IF width0 < 320000 THEN 320000 ELSE width0,
         height |-> IF height0 < 200000 THEN 200000 ELSE height0]

checkCollision(rect1, rect2) ==
    /\ rect1.x < rect2.x + rect2.width
    /\ rect1.x + rect1.width > rect2.x
    /\ rect1.y < rect2.y + rect2.height
    /\ rect1.y + rect1.height > rect2.y

----------------------------------------------------------------------------
(* The simulation tick: updateGame and what it calls *)

(* createParticles pushes 8 particles.  x, y, vx, vy are drawn from
   Math.random() and read by draw only; id and life are kept. *)
createParticles(particles, t) ==
    particles \o [i \in 1..8 |-> [id |-> t + (i - 1), life |-> 1000]]

(* createObstacle with the time of the spawn not recorded (line 100 left
   out) *)
createObstacleForgetsTime(state, size, t, isTop) ==
    IF t - state.lastObstacleTime < 2000 THEN state
    ELSE LET obstacleHeight == size.height \div 5
             obstacleWidth == Max(15000, (size.width * 25) \div 1000)
             obstacle == [id |-> t,
                          x |-> size.width,
                          y |-> IF isTop THEN getCeilingY
                                ELSE getGroundY(size) - obstacleHeight,
                          width |-> obstacleWidth,
                          height |-> obstacleHeight,
                          isTop |-> isTop]
         IN  [state EXCEPT !.obstacles = Append(@, obstacle)]

(* createObstacle: nothing within 2000 ms of the last one, else one obstacle
   at the right edge *)
createObstacle(state, size, t, isTop) ==
    IF t - state.lastObstacleTime < 2000 THEN state
    ELSE LET obstacleHeight == size.height \div 5
             obstacleWidth == Max(15000, (size.width * 25) \div 1000)
             obstacle == [id |-> t,
                          x |-> size.width,
                          y |-> IF isTop THEN getCeilingY
                                ELSE getGroundY(size) - obstacleHeight,
                          width |-> obstacleWidth,
                          height |-> obstacleHeight,
                          isTop |-> isTop]
         IN  [state EXCEPT !.obstacles = Append(@, obstacle),
                           !.lastObstacleTime = t]

(* the gravity flip without the test of isFlipping *)
HandleFlipWhileFlipping(state, t) ==
    IF state.keys.space
    THEN [state EXCEPT
            !.player.gravityFlipped = ~@,
            !.player.isFlipping = TRUE,
            !.player.flipStartTime = t,
            !.player.velocityY =
                IF ~state.player.gravityFlipped THEN JUMP_FORCE ELSE -JUMP_FORCE,
            !.particles = createParticles(@, t)]
    ELSE state

(* the gravity flip with the impulse given the sign of the old direction *)
HandleFlipOldDirection(state, t) ==
    IF state.keys.space /\ ~state.player.isFlipping
    THEN [state EXCEPT
            !.player.gravityFlipped = ~@,
            !.player.isFlipping = TRUE,
            !.player.flipStartTime = t,
            !.player.velocityY =
                IF state.player.gravityFlipped THEN JUMP_FORCE ELSE -JUMP_FORCE,
            !.particles = createParticles(@, t)]
    ELSE state

(* lines 128-135: the gravity flip *)
HandleFlip(state, t) ==
    IF state.keys.space /\ ~state.player.isFlipping
    THEN [state EXCEPT
            !.player.gravityFlipped = ~@,
            !.player.isFlipping = TRUE,
            !.player.flipStartTime = t,
            !.player.velocityY =
                IF ~state.player.gravityFlipped THEN JUMP_FORCE ELSE -JUMP_FORCE,
            !.particles = createParticles(@, t)]
    ELSE state

(* lines 137-140: the end of the flip animation *)
UpdateFlipAnimation(player, t) ==
    IF player.isFlipping /\ t - player.flipStartTime > 300
    THEN [player EXCEPT !.isFlipping = FALSE]
    ELSE player

(* gravity with the sign of the other direction *)
ApplyGravityReversed(player) ==
    LET gravity == IF player.gravityFlipped THEN GRAVITY ELSE -GRAVITY
        v == player.velocityY + gravity
    IN  [player EXCEPT !.velocityY = v, !.y = @ + v]

(* lines 142-147: gravity, then the move *)
ApplyGravity(player) ==
    LET gravity == IF player.gravityFlipped THEN -GRAVITY ELSE GRAVITY
        v == player.velocityY + gravity
    IN  [player EXCEPT !.velocityY = v, !.y = @ + v]

(* lines 149-169: the floor when gravity is normal, the ceiling when flipped *)
ClampPlayer(player, size) ==
    LET groundY == getGroundY(size)
        ceilingY == getCeilingY
    IN  IF ~player.gravityFlipped
        THEN IF player.y + player.height >= groundY
             THEN [player EXCEPT !.y = groundY - player.height,
                                 !.velocityY = 0, !.onGround = TRUE]
             ELSE [player EXCEPT !.onGround = FALSE]
        ELSE IF player.y <= ceilingY
             THEN [player EXCEPT !.y = ceilingY,
                                 !.velocityY = 0, !.onGround = TRUE]
             ELSE [player EXCEPT !.onGround = FALSE]

(* SweepOne with the off-screen test on the leading edge (obstacle.x < 0) *)
SweepOneLeadingEdge(acc, ob, player, gameSpeed, closureHighScore) ==
    LET o == [ob EXCEPT !.x = @ - gameSpeed]
    IN  IF o.x < 0
        THEN [acc EXCEPT !.score = @ + 10,
                         !.setScore = Num(acc.score + 10),
                         !.removed = Append(@, [id |-> o.id, why |-> "scored",
                                                at |-> o])]
        ELSE IF checkCollision(player, o)
        THEN LET over == [acc EXCEPT
                            !.setGameOver = TRUE,
                            !.removed = Append(@, [id |-> o.id, why |-> "collided",
                                                   at |-> o])]
             IN  IF Gt(Num(acc.score), closureHighScore)
                 THEN [over EXCEPT
                         !.setHighScore = Num(acc.score),
                         !.item = Item(toString(acc.score)),
                         !.writes = Append(@, [before |-> acc.item,
                                               after |-> Item(toString(acc.score))])]
                 ELSE over
        ELSE [acc EXCEPT !.kept = Append(@, o)]

(* SweepOne with a scored obstacle left in the collection (the filter
   callback returning true after awarding the points) *)
SweepOneKeepsScored(acc, ob, player, gameSpeed, closureHighScore) ==
    LET o == [ob EXCEPT !.x = @ - gameSpeed]
    IN  IF o.x + o.width < 0
        THEN [acc EXCEPT !.score = @ + 10,
                         !.setScore = Num(acc.score + 10),
                         !.kept = Append(@, o),
                         !.removed = Append(@, [id |-> o.id, why |-> "scored",
                                                at |-> o])]
        ELSE IF checkCollision(player, o)
        THEN [acc EXCEPT !.setGameOver = TRUE,
                         !.removed = Append(@, [id |-> o.id, why |-> "collided",
                                                at |-> o])]
        ELSE [acc EXCEPT !.kept = Append(@, o)]

(* SweepOne with the points awarded for a collided obstacle too *)
SweepOneAwardsCollided(acc, ob, player, gameSpeed, closureHighScore) ==
    LET o == [ob EXCEPT !.x = @ - gameSpeed]
    IN  IF o.x + o.width < 0
        THEN [acc EXCEPT !.score = @ + 10,
                         !.setScore = Num(acc.score + 10),
                         !.removed = Append(@, [id |-> o.id, why |-> "scored",
                                                at |-> o])]
        ELSE IF checkCollision(player, o)
        THEN [acc EXCEPT !.score = @ + 10,
                         !.setScore = Num(acc.score + 10),
                         !.setGameOver = TRUE,
                         !.removed = Append(@, [id |-> o.id, why |-> "collided",
                                                at |-> o])]
        ELSE [acc EXCEPT !.kept = Append(@, o)]

(* One obstacle of the filter callback, lines 176-196.  acc carries what the
   callback has done so far: the obstacles kept, state.score, the calls
   setScore, setGameOver, setHighScore, localStorage.setItem. *)
SweepOne(acc, ob, player, gameSpeed, closureHighScore) ==
    LET o == [ob EXCEPT !.x = @ - gameSpeed]
    IN  IF o.x + o.width < 0
        THEN [acc EXCEPT !.score = @ + 10,
                         !.setScore = Num(acc.score + 10),
                         !.removed = Append(@, [id |-> o.id, why |-> "scored",
                                                at |-> o])]
        ELSE IF checkCollision(player, o)
        THEN LET over == [acc EXCEPT
                            !.setGameOver = TRUE,
                            !.removed = Append(@, [id |-> o.id, why |-> "collided",
                                                   at |-> o])]
             IN  IF Gt(Num(acc.score), closureHighScore)
                 THEN [over EXCEPT
                         !.setHighScore = Num(acc.score),
                         !.item = Item(toString(acc.score)),
                         !.writes = Append(@, [before |-> acc.item,
                                               after |-> Item(toString(acc.score))])]
                 ELSE over
        ELSE [acc EXCEPT !.kept = Append(@, o)]

RECURSIVE Sweep(_, _, _, _, _)
Sweep(acc, obs, player, gameSpeed, closureHighScore) ==
    IF obs = <<>> THEN acc
    ELSE Sweep(SweepOne(acc, Head(obs), player, gameSpeed, closureHighScore),
               Tail(obs), player, gameSpeed, closureHighScore)

(* lines 199-207: life is 1 - 0.02 k after k ticks *)
UpdateParticles(particles) ==
    LET aged == [i \in 1..Len(particles) |->
                    [particles[i] EXCEPT !.life = @ - 20]]
    IN  SelectSeq(aged, LAMBDA p : p.life > 0)

(* updateGame, lines 124-211, in the closure of a render with the given
   highScore and canvasSize, at time t.  The result is the new
   gameState.current and the calls made on React and on localStorage. *)
updateGame(state, closureHighScore, size, item, t, isTop) ==
    LET s1 == HandleFlip(state, t)
        p2 == ClampPlayer(ApplyGravity(UpdateFlipAnimation(s1.player, t)), size)
        s2 == createObstacle([s1 EXCEPT !.player = p2], size, t, isTop)
        acc0 == [kept |-> <<>>, score |-> s2.score, setScore |-> NaN,
                 setGameOver |-> FALSE, setHighScore |-> NaN, item |-> item,
                 removed |-> <<>>, writes |-> <<>>]
        acc == Sweep(acc0, s2.obstacles, p2, s2.gameSpeed, closureHighScore)
        s3 == [s2 EXCEPT !.obstacles = acc.kept,
                         !.score = acc.score,
                         !.particles = UpdateParticles(@)]
    IN  [state |-> [s3 EXCEPT !.gameSpeed = Min(8000, 3000 + s3.score * 10)],
         calls |-> acc,
         flipped |-> s1.player.gravityFlipped # state.player.gravityFlipped,
         spawned |-> Len(s2.obstacles) > Len(s1.obstacles)]

(* startGame with the player placed left of the left boundary
   (x: canvasSize.width * (0.15 - 0.26)) *)
startGameStateLeftOfField(size) ==
    LET playerSize == getPlayerSize(size)
        startY == size.height \div 2
    IN  [player |-> [x |-> (size.width * 15) \div 100 - (size.width * 26) \div 100,
                     y |-> startY,
                     width |-> playerSize,
                     height |-> playerSize,
                     velocityY |-> 0,
                     onGround |-> TRUE,
                     gravityFlipped |-> FALSE,
                     isFlipping |-> FALSE,
                     flipStartTime |-> 0],
         obstacles |-> <<>>,
         particles |-> <<>>,
         gameSpeed |-> Max(2000, (size.width * 5) \div 1000),
         lastObstacleTime |-> 0,
         score |-> 0,
         keys |-> [space |-> FALSE]]

(* the object startGame assigns to gameState.current, lines 291-312 *)
startGameState(size) ==
    LET playerSize == getPlayerSize(size)
        startY == size.height \div 2
    IN  [player |-> [x |-> (size.width * 15) \div 100,
                     y |-> startY,
                     width |-> playerSize,
                     height |-> playerSize,
                     velocityY |-> 0,
                     onGround |-> TRUE,
                     gravityFlipped |-> FALSE,
                     isFlipping |-> FALSE,
                     flipStartTime |-> 0],
         obstacles |-> <<>>,
         particles |-> <<>>,
         gameSpeed |-> Max(2000, (size.width * 5) \div 1000),
         lastObstacleTime |-> 0,
         score |-> 0,
         keys |-> [space |-> FALSE]]

(* the initial value of the ref, lines 36-56 *)
InitialGameState ==
    [player |-> [x |-> 100000, y |-> 300000, width |-> 30000, height |-> 30000,
                 velocityY |-> 0, onGround |-> TRUE, gravityFlipped |-> FALSE,
                 isFlipping |-> FALSE, flipStartTime |-> 0],
     obstacles |-> <<>>,
     particles |-> <<>>,
     gameSpeed |-> 3000,
     lastObstacleTime |-> 0,
     score |-> 0,
     keys |-> [space |-> FALSE]]

----------------------------------------------------------------------------
(* The state after the component is mounted *)

NoTick == [kind |-> "none", size |-> [width |-> 800000, height |-> 400000],
           removed |-> <<>>, writes |-> <<>>, flipped |-> FALSE,
           spawned |-> FALSE, stale |-> FALSE]

(* Mounted: the first render, then the effect of lines 370-379 has called
   updateCanvasSize and that size is committed; no game was started. *)
InitWith(win, item) ==
    /\ window = win
    /\ localStorage = item
    /\ gameStarted = FALSE
    /\ gameOver = FALSE
    /\ score = 0
    /\ canvasSize = updateCanvasSize(win)
    /\ highScore = InitialHighScore(item)
    /\ pending = [gameStarted |-> FALSE, gameOver |-> FALSE, score |-> 0,
                  canvasSize |-> updateCanvasSize(win),
                  highScore |-> InitialHighScore(item)]
    /\ renderQueued = FALSE
    /\ canvasFresh = FALSE
    /\ gameState = InitialGameState
    /\ animationRef = 0
    /\ frames = {}
    /\ nextFrameId = 1
    /\ timers = {}
    /\ now = StartTime
    /\ held = FALSE
    /\ rounds = 0
    /\ ticks = 0
    /\ lastTick = NoTick
    /\ removalLog = <<>>
    /\ sinceTap = [flips |-> 0, keys |-> FALSE]
    /\ used = [long |-> 0, inputs |-> 0, uncommitted |-> 0]

Init == \E win \in Windows : InitWith(win, Absent)

----------------------------------------------------------------------------
(* React: commit and the game-loop effect *)

Rendered == [gameStarted |-> gameStarted, gameOver |-> gameOver,
             score |-> score, canvasSize |-> canvasSize,
             highScore |-> highScore]

(* the closure of the gameLoop of a render *)
Closure(r) == [gameStarted |-> r.gameStarted, gameOver |-> r.gameOver,
               highScore |-> r.highScore, canvasSize |-> r.canvasSize]

(* The effect without its cleanup: the frame requested before stays *)
GameLoopEffectNoCleanup(r) ==
    IF r.gameStarted /\ ~r.gameOver
    THEN /\ frames' = frames \cup {[id |-> nextFrameId, env |-> Closure(r)]}
         /\ animationRef' = nextFrameId
         /\ nextFrameId' = nextFrameId + 1
    ELSE /\ frames' = frames
         /\ UNCHANGED <<animationRef, nextFrameId>>

(* The effect of lines 391-400 when its dependencies changed: the cleanup of
   the previous run cancels the frame animationRef names, then the effect
   requests a frame for the new gameLoop if the round is running. *)
GameLoopEffect(r) ==
    LET left == IF animationRef # 0
                THEN {f \in frames : f.id # animationRef}
                ELSE frames
    IN  IF r.gameStarted /\ ~r.gameOver
        THEN /\ frames' = left \cup {[id |-> nextFrameId, env |-> Closure(r)]}
             /\ animationRef' = nextFrameId
             /\ nextFrameId' = nextFrameId + 1
        ELSE /\ frames' = left
             /\ UNCHANGED <<animationRef, nextFrameId>>

(* Render with the state r and run the effects whose dependencies changed.
   gameLoop is a new function when gameStarted, gameOver, highScore or the
   canvasSize object changed (lines 211, 276, 284). *)
Render(r, newCanvasObject) ==
    /\ gameStarted' = r.gameStarted
    /\ gameOver' = r.gameOver
    /\ score' = r.score
    /\ canvasSize' = r.canvasSize
    /\ highScore' = r.highScore
    /\ IF \/ r.gameStarted # gameStarted
          \/ r.gameOver # gameOver
          \/ r.highScore # highScore
          \/ newCanvasObject
       THEN GameLoopEffect(r)
       ELSE UNCHANGED <<frames, animationRef, nextFrameId>>

(* The scheduled re-render of the updates queued by a tick or a resize *)
Commit ==
    /\ renderQueued
    /\ Render(pending, canvasFresh)
    /\ renderQueued' = FALSE
    /\ canvasFresh' = FALSE
    /\ used' = [used EXCEPT !.uncommitted = 0]
    /\ UNCHANGED <<pending, gameState, timers, localStorage, window, now, held,
                   rounds, ticks, lastTick, removalLog, sinceTap>>

----------------------------------------------------------------------------
(* startGame and the input handlers *)

(* startGame, lines 286-314, called from a handler of the committed render;
   its three setState calls are committed when the handler returns, the
   updates queued by a resize stay queued. *)
startGame ==
    LET r == [Rendered EXCEPT !.gameStarted = TRUE, !.gameOver = FALSE,
                              !.score = 0]
    IN  /\ pending' = [pending EXCEPT !.gameStarted = TRUE, !.gameOver = FALSE,
                                      !.score = 0]
        /\ gameState' = startGameState(canvasSize)
        /\ Render(r, FALSE)
        /\ renderQueued' = (canvasFresh \/ pending' # r)
        /\ rounds' = rounds + 1
        /\ lastTick' = [NoTick EXCEPT !.kind = "start", !.size = canvasSize]
        /\ UNCHANGED <<canvasFresh, timers, localStorage, window, now, ticks,
                       removalLog>>

(* a click on the Start Game or Play Again button, lines 429-455 *)
ClickStart ==
    /\ (~gameStarted /\ ~gameOver) \/ gameOver
    /\ startGame
    /\ UNCHANGED <<held, used, sinceTap>>

SetSpace(b) ==
    /\ gameState' = [gameState EXCEPT !.keys.space = b]
    /\ UNCHANGED <<gameStarted, gameOver, score, canvasSize, highScore, pending,
                   renderQueued, canvasFresh, animationRef, frames, nextFrameId,
                   localStorage, window, now, rounds, ticks, lastTick,
                   removalLog>>

(* handleKeyDown calling startGame in every state of the round *)
handleKeyDownAlwaysStarts ==
    /\ held' = TRUE
    /\ used' = [used EXCEPT !.inputs = @ + 1]
    /\ sinceTap' = [sinceTap EXCEPT !.keys = TRUE]
    /\ startGame

(* handleKeyDown for the space key, lines 326-337 (a first press or an
   auto-repeat) *)
handleKeyDown ==
    /\ held' = TRUE
    /\ used' = [used EXCEPT !.inputs = @ + 1]
    /\ sinceTap' = [sinceTap EXCEPT !.keys = TRUE]
    /\ IF ~gameStarted /\ ~gameOver THEN startGame
       ELSE IF gameStarted /\ ~gameOver THEN SetSpace(TRUE) /\ UNCHANGED timers
       ELSE IF gameOver THEN startGame
       ELSE UNCHANGED <<gameStarted, gameOver, score, canvasSize, highScore,
                        pending, renderQueued, canvasFresh, gameState,
                        animationRef, frames, nextFrameId, timers, localStorage,
                        window, now, rounds, ticks, lastTick, removalLog>>

(* handleKeyUp for the space key, lines 339-344 *)
handleKeyUp ==
    /\ held
    /\ held' = FALSE
    /\ SetSpace(FALSE)
    /\ UNCHANGED <<timers, used, sinceTap>>

(* handleTouch with a timer of 1000 ms *)
handleTouchLongTimer ==
    /\ used' = [used EXCEPT !.inputs = @ + 1]
    /\ sinceTap' = [flips |-> 0, keys |-> held]
    /\ UNCHANGED held
    /\ IF ~gameStarted /\ ~gameOver THEN startGame
       ELSE IF gameStarted /\ ~gameOver
            THEN SetSpace(TRUE) /\ timers' = timers \cup {now + 1000}
       ELSE IF gameOver THEN startGame
       ELSE UNCHANGED <<gameStarted, gameOver, score, canvasSize, highScore,
                        pending, renderQueued, canvasFresh, gameState,
                        animationRef, frames, nextFrameId, timers, localStorage,
                        window, now, rounds, ticks, lastTick, removalLog>>

(* handleTouch, lines 356-367 *)
handleTouch ==
    /\ used' = [used EXCEPT !.inputs = @ + 1]
    /\ sinceTap' = [flips |-> 0, keys |-> held]
    /\ UNCHANGED held
    /\ IF ~gameStarted /\ ~gameOver THEN startGame
       ELSE IF gameStarted /\ ~gameOver
            THEN SetSpace(TRUE) /\ timers' = timers \cup {now + 100}
       ELSE IF gameOver THEN startGame
       ELSE UNCHANGED <<gameStarted, gameOver, score, canvasSize, highScore,
                        pending, renderQueued, canvasFresh, gameState,
                        animationRef, frames, nextFrameId, timers, localStorage,
                        window, now, rounds, ticks, lastTick, removalLog>>

(* the callback of the setTimeout of lines 361-363, at its due time or later *)
TimeoutFire ==
    \E due \in timers :
        /\ timers' = timers \ {due}
        /\ gameState' = [gameState EXCEPT !.keys.space = FALSE]
        /\ now' = Max(now, due)
        /\ UNCHANGED <<gameStarted, gameOver, score, canvasSize, highScore,
                       pending, renderQueued, canvasFresh, animationRef, frames,
                       nextFrameId, localStorage, window, held, rounds, ticks,
                       lastTick, removalLog, sinceTap, used>>

(* handleResize, lines 373-375: the window has a new size *)
handleResize ==
    \E win \in Windows :
        /\ window' = win
        /\ pending' = [pending EXCEPT !.canvasSize = updateCanvasSize(win)]
        /\ canvasFresh' = TRUE
        /\ renderQueued' = TRUE
        /\ used' = [used EXCEPT !.inputs = @ + 1]
        /\ UNCHANGED <<gameStarted, gameOver, score, canvasSize, highScore,
                       gameState, animationRef, frames, nextFrameId, timers,
                       localStorage, now, held, rounds, ticks, lastTick,
                       removalLog, sinceTap>>

----------------------------------------------------------------------------
(* The animation frame *)

(* gameLoop, lines 278-284, run as the callback of the requested frame f at
   time t: the closure is the one of the render that made this gameLoop, and
   the frame it requests calls the same gameLoop again. *)
gameLoop(f, t, isTop) ==
    LET env == f.env
        u == updateGame(gameState, env.highScore, env.canvasSize,
                        localStorage, t, isTop)
        calls == u.calls
        next == [pending EXCEPT
                    !.score = IF calls.setScore.nan THEN @ ELSE calls.setScore.val,
                    !.gameOver = IF calls.setGameOver THEN TRUE ELSE @,
                    !.highScore = IF calls.setHighScore.nan THEN @
                                  ELSE calls.setHighScore]
    IN  IF ~env.gameOver /\ env.gameStarted
        THEN /\ gameState' = u.state
             /\ localStorage' = calls.item
             /\ pending' = next
             /\ renderQueued' = (renderQueued \/ next # Rendered)
             /\ frames' = (frames \ {f}) \cup {[id |-> nextFrameId, env |-> env]}
             /\ animationRef' = nextFrameId
             /\ nextFrameId' = nextFrameId + 1
             /\ ticks' = ticks + 1
             /\ lastTick' = [kind |-> "tick", size |-> env.canvasSize,
                             removed |-> calls.removed, writes |-> calls.writes,
                             flipped |-> u.flipped, spawned |-> u.spawned,
                             stale |-> pending.gameOver]
             /\ removalLog' = removalLog \o
                    [i \in 1..Len(calls.removed) |->
                        [id |-> calls.removed[i].id, why |-> calls.removed[i].why,
                         round |-> rounds]]
             /\ sinceTap' = [sinceTap EXCEPT
                                !.flips = IF u.flipped THEN @ + 1 ELSE @]
        ELSE /\ frames' = frames \ {f}
             /\ UNCHANGED <<gameState, localStorage, pending, renderQueued,
                            animationRef, nextFrameId, ticks, lastTick,
                            removalLog, sinceTap>>

(* The browser runs a requested frame d ms after the last event.  A timer
   callback that is due runs before or after the frames of the next
   TimerSlackMs, and before any later frame.  A scheduled re-render may come
   after the next frames, MaxUncommitted of them at most.  The coin of
   createObstacle is drawn only when an obstacle is due. *)
Frame(d) ==
    \E f \in frames :
        \E isTop \in IF now + d - gameState.lastObstacleTime < 2000
                     THEN {FALSE} ELSE BOOLEAN :
            /\ \A due \in timers : due + TimerSlackMs >= now + d
            /\ renderQueued => used.uncommitted < MaxUncommitted
            /\ now' = now + d
            /\ gameLoop(f, now + d, isTop)
            /\ UNCHANGED <<gameStarted, gameOver, score, canvasSize, highScore,
                           canvasFresh, timers, window, held, rounds>>

AnimationFrame ==
    /\ Frame(FrameMs)
    /\ used' = [used EXCEPT
                  !.uncommitted = IF renderQueued THEN @ + 1 ELSE @]

(* A frame that comes LongMs after the last one.  Lateness matters to the
   simulation through createObstacle alone, which then creates an obstacle
   in this frame; the late frames tried are those that follow a frame that
   created one, which puts two obstacles next to each other. *)
LateAnimationFrame ==
    /\ used.long < MaxLongFrames
    /\ lastTick.kind = "tick" /\ lastTick.spawned
    /\ Frame(LongMs)
    /\ used' = [used EXCEPT
                  !.long = @ + 1,
                  !.uncommitted = IF renderQueued THEN @ + 1 ELSE @]

(* A frame of a display, or a device, that runs 30 frames a second *)
SlowAnimationFrame ==
    /\ Frame(SlowMs)
    /\ used' = [used EXCEPT
                  !.uncommitted = IF renderQueued THEN @ + 1 ELSE @]

KeyDown == used.inputs < MaxInputs /\ handleKeyDown
KeyUp == handleKeyUp
Tap == used.inputs < MaxInputs /\ handleTouch
Resize == used.inputs < MaxInputs /\ handleResize

----------------------------------------------------------------------------
(* Specifications *)

(* Play: every input, a short run *)
Next ==
    \/ ClickStart
    \/ KeyDown
    \/ KeyUp
    \/ Tap
    \/ TimeoutFire
    \/ Resize
    \/ ticks < MaxPlayTicks /\ AnimationFrame
    \/ Commit

Spec == Init /\ [][Next]_vars

(* Deep: a narrow window, the start button and the frames only, runs long
   enough for obstacles to cross the field *)
InitDeep == \E item \in StoredItems : InitWith(NarrowWindow, item)

NextDeep ==
    \/ ClickStart
    \/ ticks < MaxDeepTicks /\ AnimationFrame
    \/ ticks < MaxDeepTicks /\ LateAnimationFrame
    \/ Commit

SpecDeep == InitDeep /\ [][NextDeep]_vars

(* Flip: a narrow window, the key, the tap and its timer, and frames at 30 a
   second; runs long enough for a flip, the end of its animation and the
   next flip.  No obstacle reaches the player in a run this long, so no
   setState call is made after startGame and no re-render is scheduled. *)
InitFlip == InitWith(NarrowWindow, Absent)

NextFlip ==
    \/ ClickStart
    \/ used.inputs < MaxFlipInputs /\ KeyDown
    \/ KeyUp
    \/ used.inputs < MaxFlipInputs /\ Tap
    \/ TimeoutFire
    \/ ticks < MaxFlipTicks /\ SlowAnimationFrame

SpecFlip == InitFlip /\ [][NextFlip]_vars

----------------------------------------------------------------------------
(* Properties *)

(* what the simulation advances: player, obstacles, particles, score, speed *)
Simulation == <<gameState.player, gameState.obstacles, gameState.particles,
                gameState.score, gameState.gameSpeed>>

(* a tick has called setGameOver(true) and startGame was not called since *)
CollisionDetected == pending.gameOver

(* C1: once a tick has detected a collision, no step other than startGame
   changes player, obstacles, particles, score or gameSpeed. *)
C1_FrozenAfterCollision ==
    [][(CollisionDetected /\ rounds' = rounds) => Simulation' = Simulation]_vars

(* C2: between two startGame calls gameSpeed never goes down from one state
   to the next, the state startGame sets included. *)
C2_SpeedNonDecreasing ==
    [][(rounds >= 1 /\ rounds' = rounds)
         => gameState'.gameSpeed >= gameState.gameSpeed]_vars

(* C3: in every state of a round gameSpeed is at most the cap 8. *)
C3_SpeedWithinCap == rounds >= 1 => gameState.gameSpeed <= 8000

(* C4: after startGame and after every tick the player is inside the
   corridor of the canvas size that call used. *)
C4_PlayerInCorridor ==
    lastTick.kind # "none" =>
        /\ getCeilingY <= gameState.player.y
        /\ gameState.player.y + gameState.player.height
             <= getGroundY(lastTick.size)

(* ids of the live obstacles *)
LiveIds(state) == {state.obstacles[i].id : i \in 1..Len(state.obstacles)}

(* the entries of the removal log for an obstacle *)
Removals(log, id) == {k \in 1..Len(log) : log[k].id = id}

(* the entries a step adds to the removal log *)
NewRemovals == {k \in (Len(removalLog) + 1)..Len(removalLog') : TRUE}

(* C5 as claimed: every obstacle that leaves the live collection, in any
   step, is removed for exactly one reason, scored or collided. *)
C5_EveryObstacleLeavesScoredOrCollided ==
    [][\A id \in LiveIds(gameState) \ LiveIds(gameState') :
           Cardinality(Removals(removalLog', id)) = 1]_vars

(* C5 amended: every obstacle a tick removes is removed once and for one
   reason; a scored one awards 10 once, a collided one nothing; no obstacle is
   counted twice.  The obstacles still live when startGame is called are
   dropped by it for neither reason. *)
C5_SweepRemovesOnceForOneReason ==
    [][/\ rounds' = rounds =>
            /\ \A id \in LiveIds(gameState) \ LiveIds(gameState') :
                   /\ Cardinality(Removals(removalLog', id)) = 1
                   /\ \E k \in NewRemovals : removalLog'[k].id = id
            /\ \A k \in NewRemovals :
                   /\ removalLog'[k].id \in LiveIds(gameState) \cup
                        (IF lastTick'.spawned THEN {now'} ELSE {})
                   /\ removalLog'[k].id \notin LiveIds(gameState')
                   /\ removalLog'[k].why \in {"scored", "collided"}
            /\ gameState'.score = gameState.score + 10 *
                   Cardinality({k \in NewRemovals : removalLog'[k].why = "scored"})
       /\ rounds' # rounds =>
            /\ gameState'.obstacles = <<>>
            /\ removalLog' = removalLog
       /\ \A k1, k2 \in 1..Len(removalLog') :
            removalLog'[k1].id = removalLog'[k2].id => k1 = k2]_vars

(* C5 witness: the sweep has removed one obstacle as scored and one as
   collided. *)
C5_Witness ==
    /\ \E k \in 1..Len(removalLog) : removalLog[k].why = "scored"
    /\ \E k \in 1..Len(removalLog) : removalLog[k].why = "collided"

(* obstacles scored since the last startGame *)
ScoredThisRound ==
    Cardinality({k \in 1..Len(removalLog) :
                    removalLog[k].why = "scored" /\ removalLog[k].round = rounds})

(* C6: the round score is a non-negative multiple of 10, ten times the number
   of obstacles scored since the last startGame; so are the scores handed to
   React. *)
C6_ScoreIsTenPerScoredObstacle ==
    /\ gameState.score = 10 * ScoredThisRound
    /\ gameState.score >= 0 /\ gameState.score % 10 = 0
    /\ score >= 0 /\ score % 10 = 0
    /\ pending.score >= 0 /\ pending.score % 10 = 0

(* C6 witness: an obstacle was scored in this round. *)
C6_Witness == rounds >= 1 /\ gameState.score >= 10 /\ ScoredThisRound >= 1

(* the high score the game reads from a stored item *)
Persisted(item) == InitialHighScore(item)

(* C7 as claimed: every write stores a value strictly greater than the one
   persisted before it. *)
C7_EveryWriteStrictlyGreater ==
    \A i \in 1..Len(lastTick.writes) :
        Gt(Persisted(lastTick.writes[i].after), Persisted(lastTick.writes[i].before))

(* What does hold of the writes: each stores a number that is not lower than
   the one persisted before it, so the persisted high score never decreases. *)
C7_NoWriteLowers ==
    /\ \A i \in 1..Len(lastTick.writes) :
        LET a == Persisted(lastTick.writes[i].after)
            b == Persisted(lastTick.writes[i].before)
        IN  ~a.nan /\ ~b.nan /\ a.val >= b.val
    /\ Len(lastTick.writes) > 0 =>
        localStorage = lastTick.writes[Len(lastTick.writes)].after

(* a tick has written a new high score over a lower one *)
C7_Witness ==
    \E i \in 1..Len(lastTick.writes) :
        Gt(Persisted(lastTick.writes[i].after), Persisted(lastTick.writes[i].before))

(* the persisted high score as the specification reads it: 0 when the item
   is absent or is no integer *)
PersistedOrZero(item) ==
    IF Persisted(item).nan THEN 0 ELSE Persisted(item).val

(* C8: in the tick that ends the round, the item is overwritten with the
   final score if that score is greater than the persisted high score, and
   is left alone otherwise. *)
C8_OverwrittenIffGreater ==
    [][(~pending.gameOver /\ pending'.gameOver) =>
          IF gameState'.score > PersistedOrZero(localStorage)
          THEN localStorage' = Item(toString(gameState'.score))
          ELSE localStorage' = localStorage]_vars

(* C9: the high score read at startup is an integer, 0 when the item is
   absent or is no integer, and once a round has ended with a positive score
   the stored item is a number. *)
C9_HighScoreIsIntegerDefaultZero ==
    /\ ~highScore.nan
    /\ rounds = 0 => highScore = Num(PersistedOrZero(localStorage))
    /\ (gameOver /\ gameState.score > 0) =>
          ~Persisted(localStorage).nan

(* the round state of the committed render *)
RoundState ==
    IF gameStarted THEN (IF gameOver THEN "Over" ELSE "Running")
    ELSE (IF gameOver THEN "Invalid" ELSE "Idle")

(* the step is a keydown, keyup, tap or resize event *)
InputStep == used'.inputs # used.inputs \/ held' # held

(* C10: the round state moves Idle -> Running, Running -> Over and
   Over -> Running only; setGameOver(true) is called only by a tick in which
   the player's box overlaps an obstacle, and Running -> Over is the commit
   of that call; an input event in a running round neither changes the round
   state nor calls startGame. *)
C10_RoundStateMachine ==
    [][/\ RoundState' # RoundState =>
            <<RoundState, RoundState'>> \in
                {<<"Idle", "Running">>, <<"Running", "Over">>,
                 <<"Over", "Running">>}
       /\ (RoundState = "Running" /\ RoundState' = "Over") =>
            pending.gameOver /\ rounds' = rounds
       /\ (~pending.gameOver /\ pending'.gameOver) =>
            /\ ticks' = ticks + 1
            /\ \E i \in 1..Len(lastTick'.removed) :
                 /\ lastTick'.removed[i].why = "collided"
                 /\ checkCollision(gameState'.player, lastTick'.removed[i].at)
       /\ (InputStep /\ RoundState = "Running") =>
            /\ RoundState' = "Running"
            /\ rounds' = rounds
            /\ pending'.gameStarted = pending.gameStarted
            /\ pending'.gameOver = pending.gameOver
       /\ rounds' # rounds =>
            RoundState \in {"Idle", "Over"} /\ RoundState' = "Running"]_vars

(* C10 witness: a second round is running after the first one ended by a
   collision, and a key press in it has set the flip flag. *)
C10_Witness ==
    /\ rounds = 2
    /\ RoundState = "Running"
    /\ gameState.keys.space
    /\ \E k \in 1..Len(removalLog) : removalLog[k].why = "collided"

(* the default speed: the one the component is constructed with (line 50),
   which is also the one a tick computes for score 0 (line 210) *)
DefaultSpeed == InitialGameState.gameSpeed

(* what startGame resets apart from the speed *)
ResetButSpeed(state) ==
    /\ state.obstacles = <<>>
    /\ state.particles = <<>>
    /\ state.score = 0
    /\ state.player.velocityY = 0
    /\ ~state.player.gravityFlipped
    /\ ~state.player.isFlipping
    /\ ~state.keys.space
    /\ state.lastObstacleTime = 0

(* C11: every startGame call, the first one and a restart, leaves no
   obstacles, no particles, score 0, velocity 0, gravity not flipped, no flip
   in progress, the flip flag clear, the spawn timer 0 and the speed at its
   fixed default, whatever the state before the call. *)
C11_StartResetsToFixedDefaults ==
    [][rounds' # rounds =>
          /\ ResetButSpeed(gameState')
          /\ gameState'.gameSpeed = DefaultSpeed]_vars

(* What does hold of startGame: everything but the speed is reset to a fixed
   value, and the speed is set from the width of the canvas. *)
C11_StartResetsAllButSpeed ==
    [][rounds' # rounds =>
          /\ ResetButSpeed(gameState')
          /\ pending'.score = 0 /\ score' = 0
          /\ gameState'.gameSpeed = Max(2000, (canvasSize.width * 5) \div 1000)]_vars

(* the obstacles a tick has created: those the sweep kept or removed that
   were not live before the tick, at the place the sweep moved them to *)
Created ==
    {gameState'.obstacles[i] : i \in {j \in 1..Len(gameState'.obstacles) :
        gameState'.obstacles[j].id \notin LiveIds(gameState)}}
    \cup {lastTick'.removed[i].at : i \in {j \in 1..Len(lastTick'.removed) :
        lastTick'.removed[j].id \notin LiveIds(gameState)}}

(* C12: a tick creates at most one obstacle; it creates one only when
   Date.now() is at least 2000 ms after the previous spawn of the round (any
   number of ticks may lie in between), and it places it at the right edge of
   the canvas, from where the sweep of the same tick moves it by gameSpeed. *)
C12_SpawnsTwoSecondsApart ==
    [][ticks' = ticks + 1 =>
          /\ Cardinality(Created) <= 1
          /\ Len(gameState'.obstacles) + Len(lastTick'.removed)
               <= Len(gameState.obstacles) + 1
          /\ Created # {} =>
               /\ now' - gameState.lastObstacleTime >= 2000
               /\ gameState'.lastObstacleTime = now'
               /\ \A o \in Created :
                    o.x = lastTick'.size.width - gameState.gameSpeed
          /\ Created = {} =>
               gameState'.lastObstacleTime = gameState.lastObstacleTime]_vars

(* C12 witness: a tick has created an obstacle while the previous one of the
   round, created 2000 ms earlier, is still on the field. *)
C12_Witness ==
    /\ lastTick.kind = "tick" /\ lastTick.spawned
    /\ Len(gameState.obstacles) >= 2
    /\ \E i \in 1..Len(gameState.obstacles) :
          gameState.obstacles[i].id = now - 2000

(* the step is a tick that sees the flip flag set and no flip in progress *)
FlipRequestedAndFree ==
    /\ ticks' = ticks + 1
    /\ gameState.keys.space
    /\ ~gameState.player.isFlipping

(* the particles of a collection that outlive one more tick *)
Surviving(particles) == SelectSeq(particles, LAMBDA p : p.life > 20)

(* C13: a tick that sees the flip flag set and no flip in progress toggles
   gravityFlipped, sets isFlipping, sets the velocity to the jump impulse
   toward the new direction (upward, negative, when the new state is flipped;
   downward when it is normal), to which the same tick adds one step of the
   new gravity and which it zeroes if the player is on the boundary, and adds
   exactly 8 particles. *)
C13_FlipTogglesGravity ==
    [][FlipRequestedAndFree =>
          LET p == gameState.player
              q == gameState'.player
              impulse == IF q.gravityFlipped THEN JUMP_FORCE ELSE -JUMP_FORCE
              gravity == IF q.gravityFlipped THEN -GRAVITY ELSE GRAVITY
              old == Surviving(gameState.particles)
              all == gameState'.particles
          IN  /\ q.gravityFlipped = ~p.gravityFlipped
              /\ q.isFlipping
              /\ q.flipStartTime = now'
              /\ \/ q.velocityY = impulse + gravity /\ q.y = p.y + q.velocityY
                 \/ q.velocityY = 0 /\ q.onGround
              /\ q.gravityFlipped => q.velocityY <= 0
              /\ ~q.gravityFlipped => q.velocityY >= 0
              /\ Len(all) = Len(old) + 8
              /\ \A i \in 1..Len(old) : all[i].id = old[i].id
              /\ \A i \in 1..8 :
                    all[Len(old) + i] = [id |-> now' + (i - 1), life |-> 980]
              /\ lastTick'.flipped]_vars

(* C13 witness: a tick has flipped gravity back to normal, with the particles
   of the flip before it still alive. *)
C13_Witness ==
    /\ lastTick.kind = "tick" /\ lastTick.flipped
    /\ ~gameState.player.gravityFlipped
    /\ gameState.player.velocityY = 15800
    /\ Len(gameState.particles) > 8

(* the step is a tick of the running round that changes gravityFlipped *)
FlipStep ==
    /\ ticks' = ticks + 1
    /\ gameState'.player.gravityFlipped # gameState.player.gravityFlipped

(* C14: a tick that sees the flip flag set while a flip is in progress leaves
   gravityFlipped and the start of the flip alone, gives no impulse (the
   velocity changes by one step of gravity, or is zeroed on the boundary)
   and adds no particle; and a tick that flips gravity comes more than 300 ms
   after the flip before it in the round. *)
C14_FlipIgnoredWhileFlipping ==
    [][/\ (ticks' = ticks + 1 /\ gameState.keys.space
             /\ gameState.player.isFlipping) =>
            LET p == gameState.player
                q == gameState'.player
                gravity == IF p.gravityFlipped THEN -GRAVITY ELSE GRAVITY
            IN  /\ q.gravityFlipped = p.gravityFlipped
                /\ q.flipStartTime = p.flipStartTime
                /\ \/ q.velocityY = p.velocityY + gravity
                   \/ q.velocityY = 0 /\ q.onGround
                /\ gameState'.particles = UpdateParticles(gameState.particles)
                /\ ~lastTick'.flipped
       /\ FlipStep =>
            /\ now' - gameState.player.flipStartTime > 300
            /\ gameState'.player.flipStartTime = now'
            /\ ~gameState.player.isFlipping]_vars

(* C14 witness: the key was pressed once and is still down, and a tick has
   flipped gravity for the second time. *)
C14_Witness ==
    /\ held /\ used.inputs = 1 /\ rounds = 1
    /\ gameState.keys.space
    /\ lastTick.kind = "tick" /\ lastTick.flipped
    /\ ~gameState.player.gravityFlipped

(* the live obstacles of the state before a tick, moved left by the speed
   the sweep of that tick uses *)
Moved ==
    {[gameState.obstacles[i] EXCEPT !.x = @ - gameState.gameSpeed] :
        i \in 1..Len(gameState.obstacles)}

OffScreen(o) == o.x + o.width < 0

(* C15: in a tick, an obstacle whose trailing edge has passed the left
   boundary after the move is removed as scored and adds exactly 10 to the
   score (it never overlapped the player: an overlap removes the obstacle in
   the tick that sees it); an obstacle that stays on the screen and does not
   overlap the player is kept where the move put it and awards nothing. *)
C15_OffScreenScoresTen ==
    [][ticks' = ticks + 1 =>
          /\ \A o \in Moved :
                IF OffScreen(o)
                THEN /\ o.id \notin LiveIds(gameState')
                     /\ \E i \in 1..Len(lastTick'.removed) :
                            lastTick'.removed[i] =
                                [id |-> o.id, why |-> "scored", at |-> o]
                     /\ ~\E k \in 1..Len(removalLog) :
                            removalLog[k].id = o.id
                ELSE ~checkCollision(gameState'.player, o) =>
                        /\ \E i \in 1..Len(gameState'.obstacles) :
                               gameState'.obstacles[i] = o
                        /\ ~\E i \in 1..Len(lastTick'.removed) :
                               lastTick'.removed[i].id = o.id
          /\ gameState'.score = gameState.score
                + 10 * Cardinality({o \in Moved : OffScreen(o)})
          /\ {o \in Moved : OffScreen(o)} # {} =>
                pending'.score = gameState'.score]_vars

(* C15 witness: an obstacle of this round has left the screen and was
   scored, and the last tick has kept a later one that is still on the
   screen and clear of the player. *)
C15_Witness ==
    /\ lastTick.kind = "tick" /\ ~lastTick.spawned /\ lastTick.removed = <<>>
    /\ gameState.obstacles # <<>>
    /\ gameState.score >= 10
    /\ \E k \in 1..Len(removalLog) :
          removalLog[k].why = "scored" /\ removalLog[k].round = rounds

(* C17: no obstacle the sweep of a tick tests, at the place the move put it,
   and no live obstacle of any state, lies past the left boundary
   (x + width < 0) and overlaps the player's box at once; so testing the
   overlap before the boundary would give every tick the same outcome. *)
C17_NeverOffScreenAndOverlapping ==
    [][/\ ticks' = ticks + 1 =>
            \A o \in Moved \cup Created :
                ~(OffScreen(o) /\ checkCollision(gameState'.player, o))
       /\ \A i \in 1..Len(gameState'.obstacles) :
            ~(/\ OffScreen(gameState'.obstacles[i])
              /\ checkCollision(gameState'.player, gameState'.obstacles[i]))]_vars

(* C17 witness: in a round in which an obstacle has left the screen and was
   scored, the last tick has found another one overlapping the player, still
   on the screen. *)
C17_Witness ==
    /\ lastTick.kind = "tick"
    /\ gameState.score >= 10
    /\ \E i \in 1..Len(lastTick.removed) :
          /\ lastTick.removed[i].why = "collided"
          /\ checkCollision(gameState.player, lastTick.removed[i].at)
          /\ ~OffScreen(lastTick.removed[i].at)

(* C18: at most one animation frame of the game loop is requested and not
   yet run or cancelled, and it is the one animationRef names (the one the
   next cleanup cancels), over start, restart, game over and every
   re-creation of gameLoop. *)
C18_AtMostOnePendingFrame ==
    /\ Cardinality(frames) <= 1
    /\ \A f \in frames : f.id = animationRef

(* C18 witness: a second round is running with one frame requested, after a
   round that a collision ended and after the commit of a resize to the
   narrow canvas. *)
C18_Witness ==
    /\ rounds = 2 /\ gameStarted /\ ~gameOver
    /\ ticks >= 2
    /\ Cardinality(frames) = 1
    /\ canvasSize = updateCanvasSize(NarrowWindow)
    /\ window = NarrowWindow
    /\ \E k \in 1..Len(removalLog) : removalLog[k].why = "collided"

(* C19: after every tick the velocity is zero or points where gravity
   points: velocityY >= 0 when gravityFlipped is false, velocityY <= 0 when
   it is true; and a tick that does not flip has moved the player toward the
   boundary it clamps against (the floor when gravity is normal, the ceiling
   when it is flipped) or has put the player on that boundary. *)
C19_VelocityFollowsGravity ==
    [][ticks' = ticks + 1 =>
          LET p == gameState.player
              q == gameState'.player
              same == q.gravityFlipped = p.gravityFlipped
          IN  IF q.gravityFlipped
              THEN /\ q.velocityY <= 0
                   /\ same => (q.y <= p.y \/ q.y = getCeilingY)
              ELSE /\ q.velocityY >= 0
                   /\ same => \/ q.y >= p.y
                               \/ q.y + q.height = getGroundY(lastTick'.size)]_vars

(* C19 witness: the player, flipped back to normal gravity, is falling from
   the ceiling, one tick after the flip. *)
C19_Witness ==
    /\ lastTick.kind = "tick" /\ ~lastTick.flipped
    /\ ~gameState.player.gravityFlipped
    /\ gameState.player.velocityY = 16600
    /\ ~gameState.player.onGround

(* C20: with the key not down at a tap and not pressed since, the ticks
   since that tap have flipped gravity at most once, however they interleave
   with the timer of the tap; and the flip flag is set only while a timer
   that clears it, within 100 ms, is pending. *)
C20_TapFlipsAtMostOnce ==
    ~sinceTap.keys =>
        /\ sinceTap.flips <= 1
        /\ gameState.keys.space => \E due \in timers : due <= now + 100

(* C20 witness: one tap in a running round, no key pressed; a tick has
   flipped gravity, the timer has cleared the flag, and the 300 ms of the
   flip have gone by without a second flip. *)
C20_Witness ==
    /\ ~sinceTap.keys /\ ~held /\ used.inputs = 1
    /\ sinceTap.flips = 1
    /\ timers = {}
    /\ ~gameState.keys.space
    /\ gameState.player.gravityFlipped
    /\ ~gameState.player.isFlipping
    /\ now - gameState.player.flipStartTime > 300

====
